---- MODULE Spec2Model ----
(***************************************************************************)
(* Task-Management-API: the three collections (tasks, users,               *)
(* task_assignments) and the request handlers of the task controller      *)
(* (src/unnamed/part_002) and the user controller                          *)
(* (src/controller/user.js), as a state machine.                           *)
(*                                                                         *)
(* A request is received into a slot and then handled.  Under Spec a       *)
(* handler runs to completion in one step (requests are served one after   *)
(* the other); under SpecConc a handler advances one store call at a time  *)
(* (it suspends at every await), so that requests interleave; SpecEdge     *)
(* serves, one after the other, requests without a session, requests      *)
(* whose connectDB fails, and bodies with missing or invalid fields.      *)
(***************************************************************************)
EXTENDS Integers, Sequences, FiniteSets, TLC

\* ------------------------------------------------------------------ bounds
MaxTasks == 1       \* task documents ever inserted
MaxUsers == 2       \* user documents ever inserted
MaxClock == 1       \* values of the wall clock: 0..MaxClock
MaxEmails == 2      \* length of a userEmails array in a request body
MaxLeaks == 2       \* store connections left open by requests that were answered
MaxFaults == 1      \* store calls of the schema bootstrap that fail
MaxWriteFaults == 2 \* store writes of requests that fail

\* ------------------------------------------------------------------ inputs
Emails == {"ann@x.com", "bob@x.com"}
Titles == {"Ship release", "Cut v1"}
\* A path parameter that is no well-formed ObjectId string.
BadId == 0
TaskIds == 1..MaxTasks
UserIds == 1..MaxUsers
Slots == {1, 2}

\* ------------------------------------------------------------------ state
VARIABLES
    tasks,              \* collection 'tasks': sequence of documents
    users,              \* collection 'users': sequence of documents
    task_assignments,   \* collection 'task_assignments': sequence of documents
    now,                \* the wall clock read by new Date()
    issued,             \* ObjectIds generated so far, per collection
    connections,        \* store connections open (MongoClient.connect without close)
    reqs,               \* per slot: the request, the handler's position and locals, the response
    schema,             \* per collection: whether it exists, has its indexes, has its validator
    boots,              \* per caller of connectDB: the position of its initializeCollections
    faults              \* store calls of the schema bootstrap that failed so far

vars == <<tasks, users, task_assignments, now, issued, connections, reqs, schema, boots, faults>>

\* The store as one value, as the handlers' steps read and write it.
Store == [tasks |-> tasks, users |-> users, task_assignments |-> task_assignments,
          now |-> now, issued |-> issued, connections |-> connections]

\* ------------------------------------------------------------------ sequences
Range(seq) == {seq[i] : i \in 1..Len(seq)}

Count(seq, x) == Cardinality({i \in 1..Len(seq) : seq[i] = x})

RECURSIVE SeqsUpTo(_, _)
SeqsUpTo(S, n) ==
    IF n = 0 THEN {<<>>}
    ELSE LET shorter == SeqsUpTo(S, n - 1)
         IN  shorter \cup {Append(q, x) : q \in {p \in shorter : Len(p) = n - 1}, x \in S}

\* ------------------------------------------------------------------ the store
AnyObjectId(x) == TRUE

\* new mongodb.ObjectId(x) throws on a string that is no ObjectId.
ObjectIdValid(x) == x # BadId

\* collection.findOne({ _id: id }): <<>> for null, else the one document.
findOneById(coll, id) ==
    LET Match(d) == d._id = id
        hit == SelectSeq(coll, Match)
    IN  IF hit = <<>> THEN <<>> ELSE <<Head(hit)>>

findOneByName(coll, email) ==
    LET Match(d) == d.name = email
        hit == SelectSeq(coll, Match)
    IN  IF hit = <<>> THEN <<>> ELSE <<Head(hit)>>

\* collection('users').findOne({ email }).
findOneByEmail(coll, email) ==
    LET Match(d) == d.email = email
        hit == SelectSeq(coll, Match)
    IN  IF hit = <<>> THEN <<>> ELSE <<Head(hit)>>

\* collection('users').find({ email: { $in: userEmails } }).toArray().
findByEmailIn(coll, userEmails) ==
    LET Match(d) == d.email \in Range(userEmails)
    IN  SelectSeq(coll, Match)

\* initializeCollections (the schema bootstrap of connectDB) gives
\* task_assignments a unique index on (task_id, user_id) and users a unique
\* index on email.
NoUniquePairIndex == FALSE
UniquePairIndex == TRUE

NoUniqueEmailIndex == FALSE
UniqueEmailIndex == TRUE

PairTaken(coll, doc) ==
    \E i \in 1..Len(coll) : coll[i].task_id = doc.task_id /\ coll[i].user_id = doc.user_id

\* collection('task_assignments').insertMany(docs), ordered (the driver's
\* default): the documents are inserted in order and the first one that the
\* unique index rejects ends the call with an error; those before it stay.
RECURSIVE insertMany(_, _)
insertNone(coll, docs) == [coll |-> coll, ok |-> TRUE]

insertMany(coll, docs) ==
    IF docs = <<>> THEN [coll |-> coll, ok |-> TRUE]
    ELSE IF UniquePairIndex /\ PairTaken(coll, Head(docs))
         THEN [coll |-> coll, ok |-> FALSE]
         ELSE insertMany(Append(coll, Head(docs)), Tail(docs))

\* { $addToSet: { field: { $each: vals } } } on one array: a value is appended
\* only when the array does not hold it yet.
RECURSIVE addToSetEach(_, _)
addToSetEach(arr, vals) ==
    IF vals = <<>> THEN arr
    ELSE addToSetEach(IF Head(vals) \in Range(arr) THEN arr ELSE Append(arr, Head(vals)),
                      Tail(vals))

\* A sequence without its i-th element.
RemoveAt(seq, i) == SubSeq(seq, 1, i - 1) \o SubSeq(seq, i + 1, Len(seq))

deleteHead(coll, id) ==
    IF \A i \in 1..Len(coll) : coll[i]._id # id
    THEN [coll |-> coll, deleted |-> 0]
    ELSE [coll |-> Tail(coll), deleted |-> 1]

\* collection.deleteOne({ _id: id }) and findOneAndDelete({ _id: id }): the
\* first matching document goes; deleted tells whether there was one.
deleteOneById(coll, id) ==
    LET hits == {i \in 1..Len(coll) : coll[i]._id = id}
    IN  IF hits = {} THEN [coll |-> coll, deleted |-> 0]
        ELSE [coll |-> RemoveAt(coll, CHOOSE i \in hits : \A j \in hits : i <= j),
              deleted |-> 1]

\* deleteOne({ task_id }): the filter without the user.
deleteOneAssignmentOfTask(coll, taskId, userId) ==
    LET hits == {i \in 1..Len(coll) : coll[i].task_id = taskId}
    IN  IF hits = {} THEN [coll |-> coll, deleted |-> 0]
        ELSE [coll |-> RemoveAt(coll, CHOOSE i \in hits : \A j \in hits : i <= j),
              deleted |-> 1]

\* collection('task_assignments').deleteOne({ task_id, user_id }).
deleteOneAssignment(coll, taskId, userId) ==
    LET hits == {i \in 1..Len(coll) : coll[i].task_id = taskId /\ coll[i].user_id = userId}
    IN  IF hits = {} THEN [coll |-> coll, deleted |-> 0]
        ELSE [coll |-> RemoveAt(coll, CHOOSE i \in hits : \A j \in hits : i <= j),
              deleted |-> 1]

\* The aggregation of getTaskAssignees: $match the task's assignments, $lookup
\* the user of each, $unwind (an assignment whose user is gone yields no row),
\* $project.
RECURSIVE aggregateAssignees(_, _, _)
aggregateAssignees(assignments, userColl, taskId) ==
    IF assignments = <<>> THEN <<>>
    ELSE LET a == Head(assignments)
             rest == aggregateAssignees(Tail(assignments), userColl, taskId)
             IsUser(u) == u._id = a.user_id
             joined == SelectSeq(userColl, IsUser)
             Row(i) == [userId |-> joined[i]._id, name |-> joined[i].name,
                        email |-> joined[i].email, assigned_at |-> a.assigned_at]
         IN  IF a.task_id = taskId
             THEN [i \in 1..Len(joined) |-> Row(i)] \o rest
             ELSE rest

\* ------------------------------------------------------------------ requests
\* A request body, as far as the handlers read it: the fields it carries,
\* their values, and which of them carry the empty string (blank).
Body(fields, title, name, email, list) ==
    [fields |-> fields, title |-> title, name |-> name, email |-> email, list |-> list,
     blank |-> {}, role |-> "", status |-> "", priority |-> ""]

Absent(body, f) == f \notin body.fields

\* !body.f : the field is missing or empty.
Falsy(body, f) == f \notin body.fields \/ f \in body.blank

NoBody == Body({}, "", "", "", <<>>)

\* A request in its slot: req.params (id, email), req.body (isArray and
\* userEmails for the assign body, body for the others), whether it carries an
\* authenticated session, the fault its connectDB call meets, the handler's
\* position (pc) and locals (client, found, stamp), the store calls the handler
\* has made, and the response it sent.
Request(op, id, email, isArray, userEmails, body) ==
    [op |-> op, id |-> id, email |-> email, isArray |-> isArray,
     userEmails |-> userEmails, body |-> body, session |-> TRUE, fault |-> "none",
     pc |-> "start", client |-> FALSE, calls |-> 0, found |-> <<>>, stamp |-> 0,
     status |-> 0, message |-> "", required |-> {}, assignedUsers |-> <<>>,
     foundUsers |-> <<>>, missingUsers |-> <<>>, assigneeCount |-> 0, assignees |-> <<>>]

Idle == [Request("none", BadId, "", FALSE, <<>>, NoBody) EXCEPT !.pc = "idle"]

\* res.status(status).json({ message }) and the handler's return.
Respond(r, status, message) ==
    [r EXCEPT !.pc = "done", !.status = status, !.message = message]

Goto(r, pc) == [r EXCEPT !.pc = pc]

Out(s, r) == [s |-> s, r |-> r]

\* ------------------------------------------------------------------ task controller
\* Each handler is given as its step from one await to the next: the step
\* taken at position r.pc on store s, yielding the store and the request after it.

getTasks(s, r) ==
    IF r.pc = "start" THEN Out(s, Goto(r, "find"))
    ELSE Out(s, Respond(r, 200, ""))

getTaskById(s, r) ==
    IF r.pc = "start"
    THEN IF ~ObjectIdValid(r.id)
         THEN Out(s, Respond(r, 400, "Invalid task ID format"))
         ELSE Out(s, Goto(r, "findOne"))
    ELSE IF findOneById(s.tasks, r.id) = <<>>
         THEN Out(s, Respond(r, 404, "Task not found"))
         ELSE Out(s, Respond(r, 200, ""))

\* The enumerations of the collections' validators.
Statuses == {"pending", "in-progress", "completed"}
Priorities == {"low", "medium", "high"}
Roles == {"admin", "contributor", "viewer"}

\* initializeCollections installs the validators with collMod.  The $jsonSchema
\* of tasks carries the keyword default, which the server does not accept, so
\* that collMod fails and tasks stays without a validator; the one of users is
\* accepted.
TasksValidator == FALSE
UsersValidator == TRUE

createTask(s, r) ==
    IF r.pc = "start"
    THEN IF Falsy(r.body, "title") \/ Falsy(r.body, "description")
         THEN Out(s, Respond(r, 400, "Title and description are required"))
         ELSE Out(s, Goto(r, "insertOne"))
    ELSE LET id == s.issued.tasks + 1
             status == IF "status" \in r.body.fields THEN r.body.status ELSE "pending"
             priority == IF "priority" \in r.body.fields THEN r.body.priority ELSE "medium"
             task == [_id |-> id, title |-> r.body.title, status |-> status,
                      priority |-> priority, assigned_users |-> <<>>]
         IN  IF TasksValidator /\ (status \notin Statuses \/ priority \notin Priorities)
             THEN Out(s, Respond(r, 500, "Error creating task"))
             ELSE Out([s EXCEPT !.tasks = Append(@, task), !.issued.tasks = id],
                      Respond(r, 201, ""))

\* { $set: updateData } on one task document.
setTask(t, body) ==
    [t EXCEPT !.title = IF "title" \in body.fields THEN body.title ELSE @,
              !.status = IF "status" \in body.fields THEN body.status ELSE @,
              !.priority = IF "priority" \in body.fields THEN body.priority ELSE @,
              !.assigned_users = IF "assigned_users" \in body.fields THEN body.list ELSE @]

updateTask(s, r) ==
    IF r.pc = "start"
    THEN IF ~ObjectIdValid(r.id)
         THEN Out(s, Respond(r, 400, "Invalid task ID format"))
         ELSE Out(s, Goto(r, "findOneAndUpdate"))
    ELSE IF findOneById(s.tasks, r.id) = <<>>
         THEN Out(s, Respond(r, 404, "Task not found"))
         ELSE Out([s EXCEPT !.tasks = [i \in 1..Len(@) |->
                                        IF @[i]._id = r.id THEN setTask(@[i], r.body) ELSE @[i]]],
                  Respond(r, 200, ""))

deleteTask(s, r) ==
    IF r.pc = "start"
    THEN IF ~ObjectIdValid(r.id)
         THEN Out(s, Respond(r, 400, "Invalid task ID format"))
         ELSE Out(s, Goto(r, "findOneAndDelete"))
    ELSE LET result == deleteOneById(s.tasks, r.id)
         IN  IF result.deleted = 0
             THEN Out(s, Respond(r, 404, "Task not found"))
             ELSE Out([s EXCEPT !.tasks = result.coll], Respond(r, 200, ""))

\* users.map(u => ({ email: u.email, name: u.name })).
EmailOnlyAsName(found) == [i \in 1..Len(found) |-> [email |-> found[i].email, name |-> found[i].email]]

EmailAndName(found) == [i \in 1..Len(found) |-> [email |-> found[i].email, name |-> found[i].name]]

\* users.length !== userEmails.length
noUserFound(found, userEmails) == Len(found) = 0

usersMissing(found, userEmails) == Len(found) # Len(userEmails)

assignUserToTask(s, r) ==
    CASE r.pc = "start" ->
            IF ~ObjectIdValid(r.id)
            THEN Out(s, Respond(r, 500, "Error assigning users to task"))
            ELSE IF ~r.isArray \/ Len(r.userEmails) = 0
                 THEN Out(s, Respond(r, 400, "User emails array is required"))
                 ELSE Out(s, Goto(r, "findTask"))
      [] r.pc = "findTask" ->
            IF findOneById(s.tasks, r.id) = <<>>
            THEN Out(s, Respond(r, 404, "Task not found"))
            ELSE Out(s, Goto(r, "findUsers"))
      [] r.pc = "findUsers" ->
            LET found == findByEmailIn(s.users, r.userEmails)
                Missing(e) == \A i \in 1..Len(found) : found[i].email # e
            IN  IF usersMissing(found, r.userEmails)
                THEN Out(s, [Respond(r, 400, "One or more users not found") EXCEPT
                                !.foundUsers = [i \in 1..Len(found) |-> found[i].email],
                                !.missingUsers = SelectSeq(r.userEmails, Missing)])
                ELSE Out(s, [Goto(r, "insertMany") EXCEPT
                                !.found = [i \in 1..Len(found) |->
                                            [_id |-> found[i]._id, email |-> found[i].email,
                                             name |-> found[i].name]],
                                !.stamp = s.now])
      [] r.pc = "insertMany" ->
            LET assignments == [i \in 1..Len(r.found) |->
                                  [task_id |-> r.id, user_id |-> r.found[i]._id,
                                   assigned_at |-> r.stamp]]
                result == insertMany(s.task_assignments, assignments)
            IN  IF result.ok
                THEN Out([s EXCEPT !.task_assignments = result.coll], Goto(r, "updateOne"))
                ELSE Out([s EXCEPT !.task_assignments = result.coll],
                         Respond(r, 500, "Error assigning users to task"))
      [] r.pc = "updateOne" ->
            LET userIds == [i \in 1..Len(r.found) |-> r.found[i]._id]
            IN  Out([s EXCEPT !.tasks = [i \in 1..Len(@) |->
                        IF @[i]._id = r.id
                        THEN [@[i] EXCEPT !.assigned_users = addToSetEach(@, userIds)]
                        ELSE @[i]]],
                    Goto(r, "updateMany"))
      [] OTHER ->
            LET userIds == {r.found[i]._id : i \in 1..Len(r.found)}
            IN  Out([s EXCEPT !.users = [i \in 1..Len(@) |->
                        IF @[i]._id \in userIds
                        THEN [@[i] EXCEPT !.assigned_tasks = addToSetEach(@, <<r.id>>)]
                        ELSE @[i]]],
                    [Respond(r, 200, "Users assigned to task successfully") EXCEPT
                        !.assignedUsers = EmailAndName(r.found)])

\* The aggregation over the task's embedded assigned_users list instead of
\* the join collection.
assigneesOfEmbeddedList(s, taskId) ==
    LET task == Head(findOneById(s.tasks, taskId))
        Listed(u) == u._id \in Range(task.assigned_users)
        listed == SelectSeq(s.users, Listed)
    IN  [i \in 1..Len(listed) |-> [userId |-> listed[i]._id, name |-> listed[i].name,
                                   email |-> listed[i].email, assigned_at |-> 0]]

assigneesOf(s, taskId) == aggregateAssignees(s.task_assignments, s.users, taskId)

getTaskAssignees(s, r) ==
    CASE r.pc = "start" ->
            IF ~ObjectIdValid(r.id)
            THEN Out(s, Respond(r, 400, "Invalid task ID format"))
            ELSE Out(s, Goto(r, "findTask"))
      [] r.pc = "findTask" ->
            IF findOneById(s.tasks, r.id) = <<>>
            THEN Out(s, Respond(r, 404, "Task not found"))
            ELSE Out(s, Goto(r, "aggregate"))
      [] OTHER ->
            LET assignees == assigneesOf(s, r.id)
            IN  Out(s, [Respond(r, 200, "") EXCEPT
                            !.assigneeCount = Len(assignees), !.assignees = assignees])

removeUserFromTask(s, r) ==
    CASE r.pc = "start" ->
            IF ~ObjectIdValid(r.id)
            THEN Out(s, Respond(r, 400, "Invalid task ID format"))
            ELSE Out(s, Goto(r, "findTask"))
      [] r.pc = "findTask" ->
            IF findOneById(s.tasks, r.id) = <<>>
            THEN Out(s, Respond(r, 404, "Task not found"))
            ELSE Out(s, Goto(r, "findUser"))
      [] r.pc = "findUser" ->
            LET user == findOneByEmail(s.users, r.email)
            IN  IF user = <<>>
                THEN Out(s, Respond(r, 404, "User not found"))
                ELSE Out(s, [Goto(r, "deleteOne") EXCEPT
                                !.found = <<[_id |-> user[1]._id, email |-> user[1].email,
                                             name |-> user[1].name]>>])
      [] OTHER ->
            LET result == deleteOneAssignment(s.task_assignments, r.id, r.found[1]._id)
            IN  IF result.deleted = 0
                THEN Out(s, Respond(r, 404, "User is not assigned to this task"))
                ELSE Out([s EXCEPT !.task_assignments = result.coll],
                         Respond(r, 200, "User removed from task successfully"))

\* ------------------------------------------------------------------ user controller
getUsers(s, r) ==
    IF r.pc = "start" THEN Out(s, Goto(r, "find"))
    ELSE Out(s, Respond(r, 200, ""))

getUserById(s, r) ==
    IF r.pc = "start"
    THEN IF ~ObjectIdValid(r.id)
         THEN Out(s, Respond(r, 500, "Error fetching user"))
         ELSE Out(s, Goto(r, "findOne"))
    ELSE IF findOneById(s.users, r.id) = <<>>
         THEN Out(s, Respond(r, 404, "User not found"))
         ELSE Out(s, Respond(r, 200, ""))

EmailTaken(coll, email, exceptId) ==
    \E i \in 1..Len(coll) : coll[i].email = email /\ coll[i]._id # exceptId

createUser(s, r) ==
    CASE r.pc = "start" ->
            IF Falsy(r.body, "name") \/ Falsy(r.body, "email") \/ Falsy(r.body, "phone_number")
            THEN Out(s, [Respond(r, 400, "Name, email and phone number are required")
                            EXCEPT !.required = {"name", "email", "phone_number"}])
            ELSE Out(s, Goto(r, "findOne"))
      [] r.pc = "findOne" ->
            IF findOneByEmail(s.users, r.body.email) # <<>>
            THEN Out(s, Respond(r, 400, "Email already registered"))
            ELSE Out(s, Goto(r, "insertOne"))
      [] OTHER ->
            LET id == s.issued.users + 1
                role == IF Falsy(r.body, "role") THEN "contributor" ELSE r.body.role
                user == [_id |-> id, name |-> r.body.name, email |-> r.body.email,
                         role |-> role, assigned_tasks |-> <<>>]
            IN  IF \/ UniqueEmailIndex /\ EmailTaken(s.users, r.body.email, BadId)
                   \/ UsersValidator /\ role \notin Roles
                THEN Out(s, Respond(r, 500, "Error creating user"))
                ELSE Out([s EXCEPT !.users = Append(@, user), !.issued.users = id],
                         Respond(r, 201, "User created successfully"))

\* { $set: updateData } on one user document.
setUser(u, body) ==
    [u EXCEPT !.name = IF "name" \in body.fields THEN body.name ELSE @,
              !.email = IF "email" \in body.fields THEN body.email ELSE @,
              !.assigned_tasks = IF "assigned_tasks" \in body.fields THEN body.list ELSE @]

updateUser(s, r) ==
    IF r.pc = "start"
    THEN IF ~ObjectIdValid(r.id)
         THEN Out(s, Respond(r, 500, "Error updating user"))
         ELSE Out(s, Goto(r, "updateOne"))
    ELSE IF findOneById(s.users, r.id) = <<>>
         THEN Out(s, Respond(r, 404, "User not found"))
         ELSE IF /\ UniqueEmailIndex
                 /\ "email" \in r.body.fields
                 /\ EmailTaken(s.users, r.body.email, r.id)
              THEN Out(s, Respond(r, 500, "Error updating user"))
              ELSE Out([s EXCEPT !.users = [i \in 1..Len(@) |->
                                    IF @[i]._id = r.id THEN setUser(@[i], r.body) ELSE @[i]]],
                       Respond(r, 200, "User updated successfully"))

deleteUser(s, r) ==
    IF r.pc = "start"
    THEN IF ~ObjectIdValid(r.id)
         THEN Out(s, Respond(r, 500, "Error deleting user"))
         ELSE Out(s, Goto(r, "deleteOne"))
    ELSE LET result == deleteOneById(s.users, r.id)
         IN  IF result.deleted = 0
             THEN Out(s, Respond(r, 404, "User not found"))
             ELSE Out([s EXCEPT !.users = result.coll],
                      Respond(r, 200, "User deleted successfully"))

\* ------------------------------------------------------------------ running a handler
\* The message of the handler's catch-all 500.
Catch(op) ==
    CASE op = "getTasks" -> "Error fetching tasks"
      [] op = "getTaskById" -> "Error fetching task"
      [] op = "createTask" -> "Error creating task"
      [] op = "updateTask" -> "Error updating task"
      [] op = "deleteTask" -> "Error deleting task"
      [] op = "assignUserToTask" -> "Error assigning users to task"
      [] op = "getTaskAssignees" -> "Error fetching task assignees"
      [] op = "removeUserFromTask" -> "Error removing user from task"
      [] op = "getUsers" -> "Error fetching users"
      [] op = "getUserById" -> "Error fetching user"
      [] op = "createUser" -> "Error creating user"
      [] op = "updateUser" -> "Error updating user"
      [] OTHER -> "Error deleting user"

\* One step of the handler's body between two awaits.
Handler(s, r) ==
    CASE r.op = "getTasks" -> getTasks(s, r)
      [] r.op = "getTaskById" -> getTaskById(s, r)
      [] r.op = "createTask" -> createTask(s, r)
      [] r.op = "updateTask" -> updateTask(s, r)
      [] r.op = "deleteTask" -> deleteTask(s, r)
      [] r.op = "assignUserToTask" -> assignUserToTask(s, r)
      [] r.op = "getTaskAssignees" -> getTaskAssignees(s, r)
      [] r.op = "removeUserFromTask" -> removeUserFromTask(s, r)
      [] r.op = "getUsers" -> getUsers(s, r)
      [] r.op = "getUserById" -> getUserById(s, r)
      [] r.op = "createUser" -> createUser(s, r)
      [] r.op = "updateUser" -> updateUser(s, r)
      [] OTHER -> deleteUser(s, r)

isAnyone(r) == TRUE

\* app.use('/api', isAuthenticated, ...): req.isAuthenticated().
isAuthenticated(r) == r.session

\* const { client: dbClient, db } = await connectDB(); client = dbClient.
\* connectDB connects and then runs initializeCollections; when that throws,
\* connectDB rethrows without closing the client it opened, the handler's
\* client stays unset and its catch answers 500.
connectDB(s, r) ==
    IF r.fault = "bootstrap"
    THEN Out([s EXCEPT !.connections = @ + 1], Respond(r, 500, Catch(r.op)))
    ELSE Out([s EXCEPT !.connections = @ + 1], [r EXCEPT !.client = TRUE])

\* finally { if (client) await client.close(); }
finally(s, r) ==
    IF r.pc = "done" /\ r.client
    THEN Out([s EXCEPT !.connections = @ - 1], r)
    ELSE Out(s, r)

\* The session checked once the handler has answered, not before it runs.
StepThenGate(s, r) ==
    LET o == Handler(s, r)
        gate(q) == IF q.pc = "done" /\ ~isAuthenticated(q)
                   THEN Respond(q, 401, "Unauthorized") ELSE q
    IN  IF r.pc = "start"
        THEN IF o.r.pc = "done" THEN Out(o.s, gate(o.r)) ELSE connectDB(o.s, o.r)
        ELSE finally(o.s, gate([o.r EXCEPT !.calls = @ + 1]))

\* One step of serving request r: the session check and the handler's checks
\* up to connectDB, or one store call of the handler (with the finally block
\* when the handler returns).
Step(s, r) ==
    IF r.pc = "start"
    THEN IF ~isAuthenticated(r)
         THEN Out(s, Respond(r, 401, "Unauthorized"))
         ELSE LET o == Handler(s, r)
              IN  IF o.r.pc = "done" THEN o ELSE connectDB(o.s, o.r)
    ELSE LET o == Handler(s, r)
         IN  finally(o.s, [o.r EXCEPT !.calls = @ + 1])

\* The handler run from its current position to its response, with no other
\* request served in between.
RECURSIVE Run(_, _)
Run(s, r) == IF r.pc = "done" THEN Out(s, r) ELSE LET o == Step(s, r) IN Run(o.s, o.r)

\* ------------------------------------------------------------------ the requests issued
TaskIdParams == {BadId} \cup TaskIds
UserIdParams == {BadId} \cup UserIds
EmailLists == SeqsUpTo(Emails, MaxEmails)
NameOf(email) == IF email = "ann@x.com" THEN "Ann" ELSE "Bob"

CreateTaskBodies ==
    {Body({"title", "description"}, t, "", "", <<>>) : t \in Titles}
        \cup {Body({"title"}, "Ship release", "", "", <<>>)}

UpdateTaskBodies ==
    {Body({"title"}, t, "", "", <<>>) : t \in Titles}
        \cup {Body({"assigned_users"}, "", "", "", <<>>)}

CreateUserBodies ==
    {Body({"name", "email", "phone_number"}, "", NameOf(e), e, <<>>) : e \in Emails}
        \cup {Body({"name", "email"}, "", "Ann", "ann@x.com", <<>>)}

UpdateUserBodies ==
    {Body({"email"}, "", "", e, <<>>) : e \in Emails}
        \cup {Body({"assigned_tasks"}, "", "", "", <<>>)}

ReadRequests ==
    {Request("getTasks", BadId, "", FALSE, <<>>, NoBody),
     Request("getUsers", BadId, "", FALSE, <<>>, NoBody)}
        \cup {Request("getTaskById", id, "", FALSE, <<>>, NoBody) : id \in TaskIdParams}
        \cup {Request("getUserById", id, "", FALSE, <<>>, NoBody) : id \in UserIdParams}
        \cup {Request("getTaskAssignees", id, "", FALSE, <<>>, NoBody) : id \in TaskIdParams}

AssignRequests ==
    {Request("assignUserToTask", id, "", TRUE, l, NoBody) : id \in TaskIdParams, l \in EmailLists}
        \cup {Request("assignUserToTask", id, "", FALSE, <<>>, NoBody) : id \in TaskIds}
        \cup {Request("removeUserFromTask", id, e, FALSE, <<>>, NoBody) :
                id \in TaskIdParams, e \in Emails}

WriteRequests ==
    {Request("createTask", BadId, "", FALSE, <<>>, b) : b \in CreateTaskBodies}
        \cup {Request("updateTask", id, "", FALSE, <<>>, b) :
                id \in TaskIdParams, b \in UpdateTaskBodies}
        \cup {Request("deleteTask", id, "", FALSE, <<>>, NoBody) : id \in TaskIdParams}
        \cup {Request("createUser", BadId, "", FALSE, <<>>, b) : b \in CreateUserBodies}
        \cup {Request("updateUser", id, "", FALSE, <<>>, b) :
                id \in UserIdParams, b \in UpdateUserBodies}
        \cup {Request("deleteUser", id, "", FALSE, <<>>, NoBody) : id \in UserIdParams}

Requests == ReadRequests \cup AssignRequests \cup WriteRequests

EmptyStore ==
    [tasks |-> <<>>, users |-> <<>>, task_assignments |-> <<>>, now |-> 0,
     issued |-> [tasks |-> 0, users |-> 0], connections |-> 0]

\* The writing requests that get past the checks made before the first await
\* (a well-formed id, a complete body), the ones whose steps interleave, as
\* they stand at that await.
ConcRequests ==
    {Step(EmptyStore, r).r :
        r \in {q \in AssignRequests \cup WriteRequests :
                 /\ Step(EmptyStore, q).r.pc # "done"
                 /\ q.op = "createTask" => q.body.title = "Ship release"
                 /\ q.op = "updateTask" => q.body.fields = {"title"} /\ q.body.title = "Cut v1"
                 /\ q.op = "updateUser" => q.body.fields = {"email"}}}

\* Requests at the edges of the interface: bodies with missing, empty and
\* out-of-enumeration fields, every kind of request without a session, and
\* every kind of request whose connectDB call fails in the schema bootstrap.
WithField(b, f) == [b EXCEPT !.fields = @ \cup {f}]
Blank(b, f) == [b EXCEPT !.fields = @ \cup {f}, !.blank = @ \cup {f}]
WithRole(b, role) == [WithField(b, "role") EXCEPT !.role = role]
WithStatus(b, status) == [WithField(b, "status") EXCEPT !.status = status]
WithPriority(b, priority) == [WithField(b, "priority") EXCEPT !.priority = priority]

EdgeTaskBodies ==
    LET full == Body({"title", "description"}, "Ship release", "", "", <<>>)
    IN  {full, Blank(full, "title"), Blank(full, "description"),
         Body({"description"}, "", "", "", <<>>),
         WithStatus(full, "completed"), WithStatus(full, "archived"),
         WithPriority(full, "urgent")}

EdgeUserBodies ==
    LET ann == Body({"name", "email", "phone_number"}, "", "Ann", "ann@x.com", <<>>)
        bob == Body({"name", "email", "phone_number"}, "", "Bob", "bob@x.com", <<>>)
    IN  {ann, bob, Blank(ann, "name"), Blank(ann, "phone_number"),
         Body({"name", "phone_number"}, "", "Ann", "", <<>>),
         Body({"email"}, "", "", "ann@x.com", <<>>),
         WithRole(bob, "admin"), WithRole(ann, "owner"), Blank(bob, "role")}

EdgeUpdateBodies ==
    {Body({"title"}, "Cut v1", "", "", <<>>),
     Body({"assigned_users"}, "", "", "", <<>>),
     WithStatus(NoBody, "archived")}

EdgeBase ==
    ReadRequests
        \cup {Request("createTask", BadId, "", FALSE, <<>>, b) : b \in EdgeTaskBodies}
        \cup {Request("createUser", BadId, "", FALSE, <<>>, b) : b \in EdgeUserBodies}
        \cup {Request("updateTask", id, "", FALSE, <<>>, b) :
                id \in TaskIdParams, b \in EdgeUpdateBodies}
        \cup {Request("deleteTask", id, "", FALSE, <<>>, NoBody) : id \in TaskIdParams}
        \cup {Request("updateUser", id, "", FALSE, <<>>, Body({"name"}, "", "Bob", "", <<>>)) :
                id \in UserIdParams}
        \cup {Request("deleteUser", id, "", FALSE, <<>>, NoBody) : id \in UserIdParams}
        \cup {Request("assignUserToTask", id, "", TRUE, <<"ann@x.com">>, NoBody) :
                id \in TaskIdParams}
        \cup {Request("removeUserFromTask", id, "ann@x.com", FALSE, <<>>, NoBody) :
                id \in TaskIdParams}

\* new mongodb.ObjectId(undefined) generates an ObjectId, one that no stored
\* document has.
FreshId == MaxTasks + MaxUsers + 1

\* req.params, bound by the route: the value of a parameter the route names,
\* undefined otherwise; as an id and as an email (no user's email is undefined).
ParamAsId(params, name) == IF name \in DOMAIN params THEN params[name] ELSE FreshId
ParamAsEmail(params, name) == IF name \in DOMAIN params THEN params[name] ELSE ""

\* router.post('/tasks/:taskId/assign', isAuthenticated, assignUserToTask):
\* the handler reads req.params.id.
RoutedAssign(T, userEmails) ==
    LET params == [taskId |-> T]
    IN  Request("assignUserToTask", ParamAsId(params, "id"), "", TRUE, userEmails, NoBody)

\* router.delete('/tasks/:taskId/users/:userId', isAuthenticated,
\* removeUserFromTask): the handler reads req.params.taskId and
\* req.params.email.
RoutedUnassign(T, U) ==
    LET params == [taskId |-> T, userId |-> U]
    IN  Request("removeUserFromTask", ParamAsId(params, "taskId"),
                ParamAsEmail(params, "email"), FALSE, <<>>, NoBody)

RoutedRequests ==
    {RoutedAssign(T, <<"ann@x.com">>) : T \in TaskIds}
        \cup {RoutedUnassign(T, "ann@x.com") : T \in TaskIds}

EdgeRequests ==
    EdgeBase
        \cup RoutedRequests
        \cup {[r EXCEPT !.session = FALSE] : r \in EdgeBase}
        \cup {[r EXCEPT !.fault = "bootstrap"] : r \in EdgeBase}

InFlight(r) == r.pc \notin {"idle", "done"}

\* The ObjectIds that the inserts of the requests in flight will still take.
InsertsPending(op, i) == Cardinality({j \in Slots \ {i} : InFlight(reqs[j]) /\ reqs[j].op = op})

\* ------------------------------------------------------------------ the schema bootstrap
\* initializeCollections, in the order in which it goes through the collections.
Collections == <<"users", "tasks", "task_assignments">>
Callers == {1, 2}

Unbuilt == [exists |-> FALSE, indexes |-> FALSE, validator |-> FALSE]

\* The schema the handlers run on: the one a database has once the bootstrap
\* went through (the unique indexes are there, the tasks validator is not).
Bootstrapped ==
    [c \in Range(Collections) |->
        [exists |-> TRUE, indexes |-> TRUE, validator |-> (c = "tasks" => TasksValidator)]]

NoCall == [pc |-> "idle", names |-> {}, coll |-> 0]

BootInFlight(b) == b.pc \in {"list", "create", "index", "collMod"}

\* if (!collectionNames.includes(c)) for the collections from position n on:
\* the first one that the listing did not show, 0 when there is none.
NextMissing(names, n) ==
    LET missing == {k \in n..Len(Collections) : Collections[k] \notin names}
    IN  IF missing = {} THEN 0 ELSE CHOOSE k \in missing : \A m \in missing : k <= m

After(b, n) ==
    LET k == NextMissing(b.names, n)
    IN  IF k = 0 THEN [b EXCEPT !.pc = "done"] ELSE [b EXCEPT !.pc = "create", !.coll = k]

\* One await of initializeCollections for the call b on the schema sch:
\* listCollections, then for each collection the listing did not show
\* createCollection (which throws when the collection exists by now),
\* createIndexes and collMod.  An error ends the call: it is logged and
\* rethrown.
initializeCollections(sch, b) ==
    LET c == Collections[b.coll]
    IN  CASE b.pc = "list" ->
                [sch |-> sch,
                 b |-> After([b EXCEPT !.names = {x \in Range(Collections) : sch[x].exists}], 1)]
          [] b.pc = "create" ->
                IF sch[c].exists
                THEN [sch |-> sch, b |-> [b EXCEPT !.pc = "failed"]]
                ELSE [sch |-> [sch EXCEPT ![c].exists = TRUE], b |-> [b EXCEPT !.pc = "index"]]
          [] b.pc = "index" ->
                [sch |-> [sch EXCEPT ![c].indexes = TRUE], b |-> [b EXCEPT !.pc = "collMod"]]
          [] OTHER ->
                IF c = "tasks" /\ ~TasksValidator
                THEN [sch |-> sch, b |-> [b EXCEPT !.pc = "failed"]]
                ELSE [sch |-> [sch EXCEPT ![c].validator = TRUE], b |-> After(b, b.coll + 1)]

\* initializeCollections run from the call's position to its end, no other
\* call in between and no failing store call.
RECURSIVE RunBoot(_, _)
RunBoot(sch, b) ==
    IF ~BootInFlight(b) THEN [sch |-> sch, b |-> b]
    ELSE LET o == initializeCollections(sch, b) IN RunBoot(o.sch, o.b)

\* ------------------------------------------------------------------ actions
Init ==
    /\ tasks = <<>>
    /\ users = <<>>
    /\ task_assignments = <<>>
    /\ now = 0
    /\ issued = [tasks |-> 0, users |-> 0]
    /\ connections = 0
    /\ reqs = [i \in Slots |-> Idle]
    /\ schema = Bootstrapped
    /\ boots = [k \in Callers |-> NoCall]
    /\ faults = 0

SetStore(s) ==
    /\ tasks' = s.tasks
    /\ users' = s.users
    /\ task_assignments' = s.task_assignments
    /\ now' = s.now
    /\ issued' = s.issued
    /\ connections' = s.connections
    /\ UNCHANGED <<schema, boots, faults>>

\* A request arrives in a free slot.
Receive(i, r) ==
    /\ ~InFlight(reqs[i])
    /\ r.op = "createTask" => issued.tasks + InsertsPending("createTask", i) < MaxTasks
    /\ r.op = "createUser" => issued.users + InsertsPending("createUser", i) < MaxUsers
    /\ r.fault # "none" => connections < MaxLeaks
    /\ reqs' = [reqs EXCEPT ![i] = r]
    /\ connections' = IF r.client THEN connections + 1 ELSE connections
    /\ UNCHANGED <<tasks, users, task_assignments, now, issued, schema, boots, faults>>

\* The handler of the request in slot i runs from start to response.
Serve(i, op) ==
    /\ reqs[i].pc = "start"
    /\ reqs[i].op = op
    /\ LET o == Run(Store, reqs[i])
       IN  SetStore(o.s) /\ reqs' = [reqs EXCEPT ![i] = o.r]

Tick ==
    /\ now < MaxClock
    /\ now' = now + 1
    /\ UNCHANGED <<tasks, users, task_assignments, issued, connections, reqs, schema, boots, faults>>

Request1 == \E r \in Requests : Receive(1, r)
GetTasks == Serve(1, "getTasks")
GetTaskById == Serve(1, "getTaskById")
CreateTask == Serve(1, "createTask")
UpdateTask == Serve(1, "updateTask")
DeleteTask == Serve(1, "deleteTask")
AssignUserToTask == Serve(1, "assignUserToTask")
GetTaskAssignees == Serve(1, "getTaskAssignees")
RemoveUserFromTask == Serve(1, "removeUserFromTask")
GetUsers == Serve(1, "getUsers")
GetUserById == Serve(1, "getUserById")
CreateUser == Serve(1, "createUser")
UpdateUser == Serve(1, "updateUser")
DeleteUser == Serve(1, "deleteUser")

\* Requests served one after the other.
Next ==
    \/ Request1
    \/ GetTasks
    \/ GetTaskById
    \/ CreateTask
    \/ UpdateTask
    \/ DeleteTask
    \/ AssignUserToTask
    \/ GetTaskAssignees
    \/ RemoveUserFromTask
    \/ GetUsers
    \/ GetUserById
    \/ CreateUser
    \/ UpdateUser
    \/ DeleteUser
    \/ Tick

Spec == Init /\ [][Next]_vars

\* Requests at the edges of the interface, served one after the other.
RequestEdge == \E r \in EdgeRequests : Receive(1, r)

NextEdge ==
    \/ RequestEdge
    \/ GetTasks
    \/ GetTaskById
    \/ CreateTask
    \/ UpdateTask
    \/ DeleteTask
    \/ AssignUserToTask
    \/ GetTaskAssignees
    \/ RemoveUserFromTask
    \/ GetUsers
    \/ GetUserById
    \/ CreateUser
    \/ UpdateUser
    \/ DeleteUser

SpecEdge == Init /\ [][NextEdge]_vars

\* The schema bootstrap on a new database: callers of connectDB, whose
\* initializeCollections calls interleave at their awaits and whose store
\* calls may fail.
InitBoot ==
    /\ tasks = <<>>
    /\ users = <<>>
    /\ task_assignments = <<>>
    /\ now = 0
    /\ issued = [tasks |-> 0, users |-> 0]
    /\ connections = 0
    /\ reqs = [i \in Slots |-> Idle]
    /\ schema = [c \in Range(Collections) |-> Unbuilt]
    /\ boots = [k \in Callers |-> NoCall]
    /\ faults = 0

StoreUnchanged == UNCHANGED <<tasks, users, task_assignments, now, issued, connections, reqs>>

\* connectDB is called: MongoClient.connect, then initializeCollections.
Connect(k) ==
    /\ ~BootInFlight(boots[k])
    /\ boots' = [boots EXCEPT ![k] = [NoCall EXCEPT !.pc = "list"]]
    /\ UNCHANGED <<schema, faults>>
    /\ StoreUnchanged

\* The call's next store call is made.
Bootstrap(k) ==
    /\ BootInFlight(boots[k])
    /\ LET o == initializeCollections(schema, boots[k])
       IN  schema' = o.sch /\ boots' = [boots EXCEPT ![k] = o.b]
    /\ UNCHANGED faults
    /\ StoreUnchanged

\* The call's next store call fails (connectivity, a rejected command).
BootstrapFails(k) ==
    /\ BootInFlight(boots[k])
    /\ faults < MaxFaults
    /\ faults' = faults + 1
    /\ boots' = [boots EXCEPT ![k].pc = "failed"]
    /\ UNCHANGED schema
    /\ StoreUnchanged

ConnectAny == \E k \in Callers : Connect(k)
BootstrapAny == \E k \in Callers : Bootstrap(k)
BootstrapFailsAny == \E k \in Callers : BootstrapFails(k)

NextBoot ==
    \/ ConnectAny
    \/ BootstrapAny
    \/ BootstrapFailsAny

SpecBoot == InitBoot /\ [][NextBoot]_vars

\* Requests served concurrently: a request is received and its handler runs up
\* to its first await; then any request in flight takes its next step.  Of a
\* request that was answered, the slot keeps the handler and the response.
Answered(r) ==
    [Idle EXCEPT !.pc = "done", !.op = r.op, !.session = r.session,
                 !.status = r.status, !.message = r.message]

RequestAny ==
    \E i \in Slots, r \in ConcRequests :
        /\ i > 1 => InFlight(reqs[i - 1])
        /\ Receive(i, r)

AdvanceAny ==
    \E i \in Slots :
        /\ InFlight(reqs[i])
        /\ LET o == Step(Store, reqs[i])
           IN  /\ SetStore(o.s)
               /\ reqs' = [reqs EXCEPT ![i] = IF o.r.pc = "done" THEN Answered(o.r) ELSE o.r]

NextConc ==
    \/ RequestAny
    \/ AdvanceAny

SpecConc == Init /\ [][NextConc]_vars

\* Task creations, user creations and assignments in flight at the same time,
\* where any store write may fail: the await throws, the handler's catch
\* answers 500 and its finally block closes the client.  The store has either
\* not applied the failed write or applied it before the error came back.
WritePcs == {"insertOne", "insertMany", "updateOne", "updateMany"}

FailRequests ==
    {r \in ConcRequests : r.op \in {"createTask", "createUser", "assignUserToTask"}}

Thrown(s, r) == finally(s, [Respond(r, 500, Catch(r.op)) EXCEPT !.calls = @ + 1])

RequestFail ==
    \E i \in Slots, r \in FailRequests :
        /\ i > 1 => InFlight(reqs[i - 1])
        /\ Receive(i, r)

WriteFails ==
    \E i \in Slots, applied \in BOOLEAN :
        /\ InFlight(reqs[i])
        /\ reqs[i].pc \in WritePcs
        /\ faults < MaxWriteFaults
        /\ LET w == IF applied THEN Handler(Store, reqs[i]).s ELSE Store
               o == Thrown(w, reqs[i])
           IN  /\ tasks' = o.s.tasks
               /\ users' = o.s.users
               /\ task_assignments' = o.s.task_assignments
               /\ now' = o.s.now
               /\ issued' = o.s.issued
               /\ connections' = o.s.connections
               /\ reqs' = [reqs EXCEPT ![i] = Answered(o.r)]
        /\ faults' = faults + 1
        /\ UNCHANGED <<schema, boots>>

NextFail ==
    \/ RequestFail
    \/ AdvanceAny
    \/ WriteFails

SpecFail == Init /\ [][NextFail]_vars

\* ------------------------------------------------------------------ vocabulary of the claims
StoreNext == [tasks |-> tasks', users |-> users', task_assignments |-> task_assignments',
              now |-> now', issued |-> issued', connections |-> connections']

\* The join records of the pair (t, u) in a task_assignments collection.
RecordCount(coll, t, u) ==
    Cardinality({i \in 1..Len(coll) : coll[i].task_id = t /\ coll[i].user_id = u})

RecordsOfTask(coll, t) == {i \in 1..Len(coll) : coll[i].task_id = t}

TaskExists(coll, t) == \E i \in 1..Len(coll) : coll[i]._id = t

\* The ids of the stored users with the given email.
UsersWithEmail(coll, e) == {coll[i]._id : i \in {j \in 1..Len(coll) : coll[j].email = e}}

Registered(coll, e) == UsersWithEmail(coll, e) # {}

\* How often user u occurs in task t's assigned_users, and task t in user u's
\* assigned_tasks (0 when the document is not stored).
InAssignedUsers(coll, t, u) ==
    LET docs == findOneById(coll, t)
    IN  IF docs = <<>> THEN 0 ELSE Count(docs[1].assigned_users, u)

InAssignedTasks(coll, u, t) ==
    LET docs == findOneById(coll, u)
    IN  IF docs = <<>> THEN 0 ELSE Count(docs[1].assigned_tasks, t)

\* Under Spec: the request in slot 1 is about to be served / this step serves it.
Pending(r, op) == r.pc = "start" /\ r.op = op
Serves(op) == Pending(reqs[1], op) /\ reqs'[1].pc = "done"

\* An assign request that passes the checks on its own shape.
WellFormedAssign(r) ==
    /\ r.op = "assignUserToTask"
    /\ ObjectIdValid(r.id)
    /\ r.isArray
    /\ Len(r.userEmails) > 0

\* The users an assign request names, as the store resolves its emails.
Named(coll, r) == UNION {UsersWithEmail(coll, e) : e \in Range(r.userEmails)}

\* Every email of the request resolves to a user of its own.
AllResolve(coll, r) ==
    /\ \A e \in Range(r.userEmails) : Registered(coll, e)
    /\ Cardinality(Named(coll, r)) = Len(r.userEmails)

CollectionsUnchanged == UNCHANGED <<tasks, users, task_assignments>>

\* ------------------------------------------------------------------ claims
\* C1: in every reachable state, whatever the interleaving of the steps of
\* assign, unassign, create, update and delete requests, task_assignments
\* holds at most one record for each (task, user) pair.
C1_AtMostOneRecordPerPair ==
    \A t \in TaskIds, u \in UserIds : RecordCount(task_assignments, t, u) <= 1

\* C1's case: an assign was turned down by the store (a second insert of a
\* pair) while the pair's record is there.
C1_Witness ==
    \E i \in Slots :
        /\ reqs[i].pc = "done"
        /\ reqs[i].op = "assignUserToTask"
        /\ reqs[i].status = 500
        /\ task_assignments # <<>>

\* C2 (as claimed): when assign(taskId, [email]) is served for an existing
\* task and a registered email and then served once more, the pair has
\* exactly one join record and the user occurs exactly once in the task's
\* assigned_users.
C2_AssignTwiceOneRecordOneEntry ==
    [][\A e \in Emails :
        ( /\ Serves("assignUserToTask")
          /\ WellFormedAssign(reqs[1])
          /\ reqs[1].userEmails = <<e>>
          /\ TaskExists(tasks, reqs[1].id)
          /\ Registered(users, e) )
        => LET again == Run(StoreNext, reqs[1]).s
               t == reqs[1].id
           IN  \A u \in UsersWithEmail(users, e) :
                  /\ RecordCount(again.task_assignments, t, u) = 1
                  /\ InAssignedUsers(again.tasks, t, u) = 1]_vars

\* C3 (as claimed): an assign that names a user who already has a join record
\* for the task is answered with the success response and leaves that pair's
\* join record and both mirror entries as they were.
C3_ReassignIsNoOpSuccess ==
    [][( /\ Serves("assignUserToTask")
         /\ WellFormedAssign(reqs[1])
         /\ TaskExists(tasks, reqs[1].id)
         /\ AllResolve(users, reqs[1])
         /\ \E u \in Named(users, reqs[1]) :
                RecordCount(task_assignments, reqs[1].id, u) > 0 )
       => /\ reqs'[1].status = 200
          /\ \A u \in Named(users, reqs[1]) :
                RecordCount(task_assignments, reqs[1].id, u) > 0
                => /\ RecordCount(task_assignments', reqs[1].id, u)
                        = RecordCount(task_assignments, reqs[1].id, u)
                   /\ InAssignedUsers(tasks', reqs[1].id, u)
                        = InAssignedUsers(tasks, reqs[1].id, u)
                   /\ InAssignedTasks(users', u, reqs[1].id)
                        = InAssignedTasks(users, u, reqs[1].id)]_vars

\* C4: an assign to an existing task in which at least one email matches no
\* stored user creates no join record, changes no task's assigned_users and no
\* user's assigned_tasks, and is answered 400 with exactly the unmatched
\* emails listed as missing.
C4_UnknownEmailAllOrNothing ==
    [][( /\ Serves("assignUserToTask")
         /\ WellFormedAssign(reqs[1])
         /\ TaskExists(tasks, reqs[1].id)
         /\ \E e \in Range(reqs[1].userEmails) : ~Registered(users, e) )
       => /\ reqs'[1].status = 400
          /\ reqs'[1].message = "One or more users not found"
          /\ Range(reqs'[1].missingUsers)
                = {e \in Range(reqs[1].userEmails) : ~Registered(users, e)}
          /\ CollectionsUnchanged]_vars

\* C4's case: an assign naming one registered and one unknown email was
\* answered 400.
C4_Witness ==
    /\ reqs[1].pc = "done"
    /\ reqs[1].op = "assignUserToTask"
    /\ reqs[1].status = 400
    /\ reqs[1].foundUsers # <<>>
    /\ reqs[1].missingUsers # <<>>

\* C5: after a successful assign on an existing task, with every email
\* registered and none of the users assigned before, every requested user has
\* one join record for the task, is in the task's assigned_users and has the
\* task in its assigned_tasks, and the response lists exactly the
\* (email, name) of the requested users.
C5_AssignWritesAllThree ==
    [][( /\ Serves("assignUserToTask")
         /\ reqs'[1].status = 200
         /\ TaskExists(tasks, reqs[1].id)
         /\ \A e \in Range(reqs[1].userEmails) : Registered(users, e)
         /\ \A u \in Named(users, reqs[1]) :
                RecordCount(task_assignments, reqs[1].id, u) = 0 )
       => /\ \A u \in Named(users, reqs[1]) :
                /\ RecordCount(task_assignments', reqs[1].id, u) = 1
                /\ InAssignedUsers(tasks', reqs[1].id, u) >= 1
                /\ InAssignedTasks(users', u, reqs[1].id) >= 1
          /\ Len(reqs'[1].assignedUsers) = Len(reqs[1].userEmails)
          /\ Range(reqs'[1].assignedUsers)
                = {[email |-> users[i].email, name |-> users[i].name] :
                     i \in {j \in 1..Len(users) : users[j].email \in Range(reqs[1].userEmails)}}]_vars

\* C5's case: an assign of two users was answered 200.
C5_Witness ==
    /\ reqs[1].pc = "done"
    /\ reqs[1].op = "assignUserToTask"
    /\ reqs[1].status = 200
    /\ Len(reqs[1].assignedUsers) = 2
    /\ Len(task_assignments) = 2

\* The embedded lists mirror the join collection: each stored task's
\* assigned_users holds exactly the users with a join record for it, each
\* stored user's assigned_tasks exactly the tasks with a join record for it.
MirrorsAgree(T, U, A) ==
    /\ \A i \in 1..Len(T) :
          Range(T[i].assigned_users) = {u \in UserIds : RecordCount(A, T[i]._id, u) > 0}
    /\ \A i \in 1..Len(U) :
          Range(U[i].assigned_tasks) = {t \in TaskIds : RecordCount(A, t, U[i]._id) > 0}

\* C6 (as claimed): with no request in flight, a successful assign or
\* unassign served from a state in which the embedded lists mirror the join
\* collection ends in such a state, so that the mirror holds after any
\* sequence of them.
C6_MirrorsFollowJoinCollection ==
    [][( /\ Serves("assignUserToTask") \/ Serves("removeUserFromTask")
         /\ reqs'[1].status = 200
         /\ MirrorsAgree(tasks, users, task_assignments) )
       => MirrorsAgree(tasks', users', task_assignments')]_vars

\* C7: unassign(taskId, email) for an existing task and an existing user
\* without a join record is answered 404 "User is not assigned to this task"
\* and leaves the three collections unchanged.
C7_UnassignUnassignedIs404 ==
    [][( /\ Serves("removeUserFromTask")
         /\ ObjectIdValid(reqs[1].id)
         /\ TaskExists(tasks, reqs[1].id)
         /\ Registered(users, reqs[1].email)
         /\ \A u \in UsersWithEmail(users, reqs[1].email) :
                RecordCount(task_assignments, reqs[1].id, u) = 0 )
       => /\ reqs'[1].status = 404
          /\ reqs'[1].message = "User is not assigned to this task"
          /\ CollectionsUnchanged]_vars

\* C7's case: such an unassign was answered, while the task has a join
\* record of another user.
C7_Witness ==
    /\ reqs[1].pc = "done"
    /\ reqs[1].op = "removeUserFromTask"
    /\ reqs[1].status = 404
    /\ reqs[1].message = "User is not assigned to this task"
    /\ RecordsOfTask(task_assignments, reqs[1].id) # {}

GetAssigneesRequest(t) == Request("getTaskAssignees", t, "", FALSE, <<>>, NoBody)
UnassignRequest(t, e) == Request("removeUserFromTask", t, e, FALSE, <<>>, NoBody)

\* What C8 asks of a getAssignees response g, given the task's join records.
OneAssignee(g, A, t, e) ==
    /\ g.status = 200
    /\ g.assigneeCount = 1
    /\ Len(g.assignees) = 1
    /\ g.assignees[1].email = e
    /\ \A i \in RecordsOfTask(A, t) : g.assignees[1].assigned_at = A[i].assigned_at

\* C8: a getAssignees(taskId) served after a successful assign(taskId, [email])
\* on a task without prior assignments returns assigneeCount = 1 and exactly
\* one entry, with the assigned email and the assigned_at stamp of the join
\* record (a clock value not after now).  First conjunct: the read served right
\* after the assign; second: any read served while the task's only join record
\* is the one such an assign left.
C8_AssigneesAfterAssign ==
    [][/\ \A e \in Emails :
            ( /\ Serves("assignUserToTask")
              /\ reqs[1].userEmails = <<e>>
              /\ reqs'[1].status = 200
              /\ RecordsOfTask(task_assignments, reqs[1].id) = {} )
            => /\ OneAssignee(Run(StoreNext, GetAssigneesRequest(reqs[1].id)).r,
                              task_assignments', reqs[1].id, e)
               /\ \A i \in RecordsOfTask(task_assignments', reqs[1].id) :
                     task_assignments'[i].assigned_at <= now'
       /\ \A e \in Emails :
            ( /\ Serves("getTaskAssignees")
              /\ TaskExists(tasks, reqs[1].id)
              /\ Cardinality(RecordsOfTask(task_assignments, reqs[1].id)) = 1
              /\ \E u \in UsersWithEmail(users, e) :
                    RecordCount(task_assignments, reqs[1].id, u) = 1 )
            => OneAssignee(reqs'[1], task_assignments, reqs[1].id, e)]_vars

\* C8's case: a getAssignees was answered with the one assignee, stamped after
\* the clock had advanced.
C8_Witness ==
    /\ reqs[1].pc = "done"
    /\ reqs[1].op = "getTaskAssignees"
    /\ reqs[1].assigneeCount = 1
    /\ Len(task_assignments) = 1
    /\ reqs[1].assignees[1].assigned_at = MaxClock

\* C9 (as claimed): for assign(T, [e]) then unassign(T, e) on an existing task
\* and a registered email, both are answered 200 and a getAssignees(T) that
\* follows reports assigneeCount = 0.
C9_AssignUnassignThenNoAssignees ==
    [][\A e \in Emails :
        ( /\ Serves("assignUserToTask")
          /\ WellFormedAssign(reqs[1])
          /\ reqs[1].userEmails = <<e>>
          /\ TaskExists(tasks, reqs[1].id)
          /\ Registered(users, e) )
        => LET un == Run(StoreNext, UnassignRequest(reqs[1].id, e))
               get == Run(un.s, GetAssigneesRequest(reqs[1].id)).r
           IN  /\ reqs'[1].status = 200
               /\ un.r.status = 200
               /\ get.status = 200
               /\ get.assigneeCount = 0]_vars

\* C10 (as claimed): the join record of a pair appears only by a successful
\* assign naming the pair and disappears only by a successful unassign naming
\* it; no other request adds or removes it.
C10_RecordChangesOnlyByItsAssignAndUnassign ==
    [][\A t \in TaskIds, u \in UserIds :
        /\ RecordCount(task_assignments', t, u) > RecordCount(task_assignments, t, u)
            => /\ Serves("assignUserToTask")
               /\ reqs'[1].status = 200
               /\ reqs[1].id = t
               /\ u \in Named(users, reqs[1])
        /\ RecordCount(task_assignments', t, u) < RecordCount(task_assignments, t, u)
            => /\ Serves("removeUserFromTask")
               /\ reqs'[1].status = 200
               /\ reqs[1].id = t
               /\ u \in UsersWithEmail(users, reqs[1].email)]_vars

\* Two assign requests of the same single user to the same task have both
\* passed the task and the user lookup, neither has inserted, and the pair has
\* no join record.
Racing(i, j) ==
    /\ i # j
    /\ reqs[i].op = "assignUserToTask" /\ reqs[j].op = "assignUserToTask"
    /\ reqs[i].pc = "insertMany" /\ reqs[j].pc = "insertMany"
    /\ reqs[i].id = reqs[j].id
    /\ Len(reqs[i].found) = 1
    /\ reqs[i].found = reqs[j].found
    /\ RecordCount(task_assignments, reqs[i].id, reqs[i].found[1]._id) = 0

\* C11 (as claimed): when two assign requests for the same (task, user) pair
\* have both passed the lookups before either inserts, both complete with the
\* success response, and afterwards the pair has exactly one join record and
\* is in both embedded lists.
C11_ConcurrentAssignsBothSucceed ==
    \A i, j \in Slots :
        Racing(i, j)
        => LET first == Run(Store, reqs[i])
               second == Run(first.s, reqs[j])
               t == reqs[i].id
               u == reqs[i].found[1]._id
           IN  /\ first.r.status = 200
               /\ second.r.status = 200
               /\ RecordCount(second.s.task_assignments, t, u) = 1
               /\ TaskExists(second.s.tasks, t) => InAssignedUsers(second.s.tasks, t, u) = 1
               /\ findOneById(second.s.users, u) # <<>>
                    => InAssignedTasks(second.s.users, u, t) = 1

\* C12 (as claimed): every store connection opened while serving a request is
\* closed by the time the request completes, on every exit path (success,
\* early 4xx return, failing store operation, failing schema bootstrap inside
\* connectDB): when no request is being served, no connection is open.
C12_ConnectionsClosed ==
    (\A i \in Slots : ~InFlight(reqs[i])) => connections = 0

\* C13: in every reachable state, whatever the interleaving of the steps of
\* createUser, updateUser and deleteUser requests, no two stored users have
\* the same email.
C13_EmailsUnique ==
    \A i, j \in 1..Len(users) : users[i].email = users[j].email => i = j

\* C13's case: a createUser that found the email free was turned down by the
\* store, because a request running beside it had taken the email meanwhile.
C13_Witness ==
    \E i \in Slots :
        /\ reqs[i].pc = "done"
        /\ reqs[i].op = "createUser"
        /\ reqs[i].status = 500
        /\ users # <<>>

\* C14: createUser with all required fields and an email that a stored user
\* has is answered 400 "Email already registered" and leaves the users
\* collection unchanged.
C14_DuplicateEmailIs400 ==
    [][( /\ Serves("createUser")
         /\ ~Falsy(reqs[1].body, "name")
         /\ ~Falsy(reqs[1].body, "email")
         /\ ~Falsy(reqs[1].body, "phone_number")
         /\ Registered(users, reqs[1].body.email) )
       => /\ reqs'[1].status = 400
          /\ reqs'[1].message = "Email already registered"
          /\ UNCHANGED users]_vars

\* C14's case: such a createUser was answered.
C14_Witness ==
    /\ reqs[1].pc = "done"
    /\ reqs[1].op = "createUser"
    /\ reqs[1].message = "Email already registered"
    /\ Registered(users, reqs[1].body.email)

\* The request in slot 1 got past the session check and its connectDB call
\* meets no fault.
Admitted == isAuthenticated(reqs[1]) /\ reqs[1].fault = "none"

\* The step answered the request in slot 1 without connectDB and without a
\* store call.
NoStoreAccess ==
    /\ ~reqs'[1].client
    /\ reqs'[1].calls = 0
    /\ connections' = connections
    /\ CollectionsUnchanged

RequiredOfUser == {"name", "email", "phone_number"}

\* The body gives no value for the field: it is missing or the empty string.
NotGiven(b, f) == f \notin b.fields \/ f \in b.blank

\* C15: createUser with any of name, email, phone_number missing or empty is
\* answered 400 with a validation error whose list of fields names every
\* missing one, without opening a store connection or storing a user; with the
\* three present, no role given and the email free, the user is stored with
\* role contributor and an empty assigned_tasks.
C15_CreateUserValidation ==
    [][( /\ Serves("createUser") /\ Admitted )
       => LET b == reqs[1].body
              missing == {f \in RequiredOfUser : NotGiven(b, f)}
          IN  /\ missing # {}
                  => /\ reqs'[1].status = 400
                     /\ reqs'[1].message = "Name, email and phone number are required"
                     /\ missing \subseteq reqs'[1].required
                     /\ NoStoreAccess
              /\ (missing = {} /\ NotGiven(b, "role") /\ ~Registered(users, b.email))
                  => /\ reqs'[1].status = 201
                     /\ Len(users') = Len(users) + 1
                     /\ users'[Len(users')].email = b.email
                     /\ users'[Len(users')].role = "contributor"
                     /\ users'[Len(users')].assigned_tasks = <<>>]_vars

\* C15's case: a createUser with an empty field was answered 400 while a user
\* created without a role is stored.
C15_Witness ==
    /\ reqs[1].pc = "done"
    /\ reqs[1].op = "createUser"
    /\ reqs[1].status = 400
    /\ reqs[1].body.blank # {}
    /\ reqs[1].required = RequiredOfUser
    /\ \E i \in 1..Len(users) : users[i].role = "contributor"

\* C16 (as claimed): createTask with title and description stores status
\* pending when status is omitted and priority medium when priority is
\* omitted; with a status or a priority outside its enumeration it is
\* answered 400 and no task is stored.
C16_CreateTaskDefaultsAndEnums ==
    [][( /\ Serves("createTask") /\ Admitted
         /\ ~Falsy(reqs[1].body, "title")
         /\ ~Falsy(reqs[1].body, "description") )
       => LET b == reqs[1].body
              outside == \/ "status" \in b.fields /\ b.status \notin Statuses
                         \/ "priority" \in b.fields /\ b.priority \notin Priorities
          IN  IF outside
              THEN reqs'[1].status = 400 /\ UNCHANGED tasks
              ELSE /\ reqs'[1].status = 201
                   /\ Len(tasks') = Len(tasks) + 1
                   /\ "status" \notin b.fields => tasks'[Len(tasks')].status = "pending"
                   /\ "priority" \notin b.fields => tasks'[Len(tasks')].priority = "medium"]_vars

TaskIdHandlers ==
    {"getTaskById", "updateTask", "deleteTask", "getTaskAssignees", "removeUserFromTask"}

\* C17: get, update, delete, getAssignees and unassign, given a task id that is
\* no well-formed identifier, answer 400 "Invalid task ID format" (not 500)
\* and make no store read or write.
C17_MalformedTaskIdIs400 ==
    [][\A op \in TaskIdHandlers :
        ( /\ Serves(op) /\ Admitted
          /\ reqs[1].id = BadId )
        => /\ reqs'[1].status = 400
           /\ reqs'[1].message = "Invalid task ID format"
           /\ NoStoreAccess]_vars

\* C17's case: an unassign with a malformed task id was answered 400 while a
\* task and a user are stored.
C17_Witness ==
    /\ reqs[1].pc = "done"
    /\ reqs[1].op = "removeUserFromTask"
    /\ reqs[1].id = BadId
    /\ reqs[1].status = 400
    /\ tasks # <<>>
    /\ users # <<>>

UserIdHandlers == {"getUserById", "updateUser", "deleteUser"}

\* C18 (as claimed): getUserById, updateUser and deleteUser, given a user id
\* that is no well-formed identifier, answer with a 400 validation error, not
\* with a 500.
C18_MalformedUserIdIs400 ==
    [][\A op \in UserIdHandlers :
        ( /\ Serves(op) /\ Admitted
          /\ reqs[1].id = BadId )
        => reqs'[1].status = 400]_vars

WritingHandlers ==
    {"createTask", "updateTask", "deleteTask", "assignUserToTask", "removeUserFromTask",
     "createUser", "updateUser", "deleteUser"}

\* C19: a create, update, delete, assign or unassign request without an
\* authenticated session is answered 401, its handler is not run (no check of
\* its own, no connection, no store call) and the three collections stay as
\* they were.
C19_NoSessionIs401 ==
    [][\A op \in WritingHandlers :
        ( Serves(op) /\ ~reqs[1].session )
        => /\ reqs'[1].status = 401
           /\ NoStoreAccess]_vars

\* C19's case: an assign without a session, for a stored task and a stored
\* user, was answered 401.
C19_Witness ==
    /\ reqs[1].pc = "done"
    /\ reqs[1].op = "assignUserToTask"
    /\ ~reqs[1].session
    /\ reqs[1].status = 401
    /\ TaskExists(tasks, reqs[1].id)
    /\ \A e \in Range(reqs[1].userEmails) : Registered(users, e)

\* C20 (as claimed): the listings of users and tasks and the gets by id need
\* no session: without one the request reaches the handler and is answered by
\* it (200 for a listing or a stored document), never 401.
C20_ReadsNeedNoSession ==
    [][( /\ ~reqs[1].session /\ reqs[1].fault = "none" )
       => /\ Serves("getTasks") \/ Serves("getUsers") => reqs'[1].status = 200
          /\ Serves("getTaskById") => reqs'[1].status # 401
          /\ Serves("getUserById") => reqs'[1].status # 401
          /\ (Serves("getTaskById") /\ TaskExists(tasks, reqs[1].id)) => reqs'[1].status = 200
          /\ (Serves("getUserById") /\ findOneById(users, reqs[1].id) # <<>>)
                => reqs'[1].status = 200]_vars

\* The collection without the documents of the given id.
Without(coll, id) ==
    LET Keep(d) == d._id # id
    IN  SelectSeq(coll, Keep)

\* C21: a successful deleteTask or deleteUser removes only the targeted
\* document: the task_assignments records, the other tasks and the other users
\* (with their assigned_users / assigned_tasks) stay as they were, so that
\* join records and mirror entries naming the deleted document remain.
C21_DeleteRemovesOnlyTheDocument ==
    [][/\ (Serves("deleteTask") /\ reqs'[1].status = 200)
            => /\ tasks' = Without(tasks, reqs[1].id)
               /\ Len(tasks') = Len(tasks) - 1
               /\ UNCHANGED <<users, task_assignments>>
       /\ (Serves("deleteUser") /\ reqs'[1].status = 200)
            => /\ users' = Without(users, reqs[1].id)
               /\ Len(users') = Len(users) - 1
               /\ UNCHANGED <<tasks, task_assignments>>]_vars

\* C21's case: a user was deleted who is not the first of the collection, and
\* a join record and a task's assigned_users still name the deleted user.
C21_Witness ==
    /\ reqs[1].pc = "done"
    /\ reqs[1].op = "deleteUser"
    /\ reqs[1].status = 200
    /\ users # <<>>
    /\ \E i \in 1..Len(task_assignments) : task_assignments[i].user_id = reqs[1].id
    /\ \E i \in 1..Len(tasks) : reqs[1].id \in Range(tasks[i].assigned_users)

\* C22 (as claimed): updateTask changes only title, description, status,
\* priority, due date and the update stamp: whatever the body, the task's
\* identifier and its assigned_users stay as they were; a status or priority
\* outside its enumeration is rejected with a validation error and the task is
\* unchanged; for a task that is not stored the answer is 404 and nothing
\* changes.
C22_UpdateTaskFrame ==
    [][( /\ Serves("updateTask") /\ Admitted
         /\ reqs[1].id # BadId )
       => LET b == reqs[1].body
              outside == \/ "status" \in b.fields /\ b.status \notin Statuses
                         \/ "priority" \in b.fields /\ b.priority \notin Priorities
          IN  /\ UNCHANGED <<users, task_assignments>>
              /\ Len(tasks') = Len(tasks)
              /\ \A i \in 1..Len(tasks) :
                    /\ tasks'[i]._id = tasks[i]._id
                    /\ tasks'[i].assigned_users = tasks[i].assigned_users
                    /\ tasks[i]._id # reqs[1].id => tasks'[i] = tasks[i]
              /\ ~TaskExists(tasks, reqs[1].id)
                    => reqs'[1].status = 404 /\ UNCHANGED tasks
              /\ (TaskExists(tasks, reqs[1].id) /\ outside)
                    => reqs'[1].status = 400 /\ UNCHANGED tasks]_vars

\* C23 (as claimed): getAssignees on an existing task returns one entry per
\* task_assignments record of the task, and assigneeCount is the number of
\* those records, in every reachable state (also after users were deleted).
C23_OneEntryPerRecord ==
    [][( /\ Serves("getTaskAssignees") /\ Admitted
         /\ TaskExists(tasks, reqs[1].id) )
       => /\ reqs'[1].status = 200
          /\ reqs'[1].assigneeCount = Cardinality(RecordsOfTask(task_assignments, reqs[1].id))
          /\ Len(reqs'[1].assignees) = reqs'[1].assigneeCount]_vars

\* C24 (as claimed): an assign in which every email resolves to a user, some
\* of these users having a join record for the task and others not, completes
\* successfully, and afterwards every requested user has exactly one join
\* record for the task and is in both embedded lists.
C24_MixedAssignCompletes ==
    [][( /\ Serves("assignUserToTask") /\ Admitted
         /\ WellFormedAssign(reqs[1])
         /\ TaskExists(tasks, reqs[1].id)
         /\ AllResolve(users, reqs[1])
         /\ \E u \in Named(users, reqs[1]) : RecordCount(task_assignments, reqs[1].id, u) > 0
         /\ \E u \in Named(users, reqs[1]) : RecordCount(task_assignments, reqs[1].id, u) = 0 )
       => /\ reqs'[1].status = 200
          /\ \A u \in Named(users, reqs[1]) :
                /\ RecordCount(task_assignments', reqs[1].id, u) = 1
                /\ InAssignedUsers(tasks', reqs[1].id, u) = 1
                /\ InAssignedTasks(users', u, reqs[1].id) = 1]_vars

\* C25 (as claimed): whenever an assign to an existing task fails with "One or
\* more users not found", some requested email has no stored user, foundUsers
\* is exactly the requested emails that have one and missingUsers exactly the
\* (non-empty) requested emails that have none; so a request whose every
\* email has a stored user, a list repeating an email included, never gets
\* this error.
C25_NotFoundListsAreExact ==
    [][( /\ Serves("assignUserToTask") /\ Admitted
         /\ reqs'[1].message = "One or more users not found" )
       => LET asked == Range(reqs[1].userEmails)
          IN  /\ \E e \in asked : ~Registered(users, e)
              /\ Range(reqs'[1].foundUsers) = {e \in asked : Registered(users, e)}
              /\ Range(reqs'[1].missingUsers) = {e \in asked : ~Registered(users, e)}
              /\ reqs'[1].missingUsers # <<>>]_vars

\* Two createUser requests with the same email have both made the existence
\* check and found the email free, and neither has inserted.
RacingCreates(i, j) ==
    /\ i # j
    /\ reqs[i].op = "createUser" /\ reqs[j].op = "createUser"
    /\ reqs[i].pc = "insertOne" /\ reqs[j].pc = "insertOne"
    /\ reqs[i].body.email = reqs[j].body.email
    /\ ~Registered(users, reqs[i].body.email)

\* C26 (as claimed): when two createUser requests with the same new email have
\* both made the existence check before either inserts, exactly one user is
\* stored, one request gets 201 and the other is answered as the duplicate
\* email conflict, 400 "Email already registered", not as a 500.
C26_ConcurrentCreatesConflict ==
    \A i, j \in Slots :
        RacingCreates(i, j)
        => LET first == Run(Store, reqs[i])
               second == Run(first.s, reqs[j])
           IN  /\ Len(second.s.users) = Len(users) + 1
               /\ first.r.status = 201
               /\ second.r.status = 400
               /\ second.r.message = "Email already registered"

\* No connectDB call is under way.
Quiet == \A k \in Callers : ~BootInFlight(boots[k])

\* C27 (as claimed): the schema bootstrap is idempotent and complete: after
\* any sequence of connectDB calls, calls that failed part-way and calls that
\* ran side by side included, every collection that exists has its uniqueness
\* constraint (users: email; task_assignments: (task_id, user_id)), and a
\* later connectDB call succeeds (of two further calls, the second at the
\* latest).
C27_BootstrapComplete ==
    Quiet =>
        /\ \A c \in {"users", "task_assignments"} : schema[c].exists => schema[c].indexes
        /\ LET one == RunBoot(schema, [NoCall EXCEPT !.pc = "list"])
               two == RunBoot(one.sch, [NoCall EXCEPT !.pc = "list"])
           IN  two.b.pc = "done"

\* C28 (as claimed): the assignment handlers work on the identifiers that
\* their routes bind: POST /tasks/{T}/assign looks up task T, and
\* DELETE /tasks/{T}/users/{U} looks up task T and the user identified by U;
\* so assigning a registered user to an existing task through the route is
\* answered 200, and removing an assigned user through the route is
\* answered 200.
C28_RoutesBindHandlerParams ==
    [][\A T \in TaskIds, e \in Emails :
        /\ ( /\ reqs[1] = RoutedAssign(T, <<e>>)
             /\ Serves("assignUserToTask")
             /\ TaskExists(tasks, T)
             /\ Registered(users, e)
             /\ \A u \in UsersWithEmail(users, e) : RecordCount(task_assignments, T, u) = 0 )
           => /\ reqs'[1].status = 200
              /\ \A u \in UsersWithEmail(users, e) : RecordCount(task_assignments', T, u) = 1
        /\ ( /\ reqs[1] = RoutedUnassign(T, e)
             /\ Serves("removeUserFromTask")
             /\ TaskExists(tasks, T)
             /\ \E u \in UsersWithEmail(users, e) : RecordCount(task_assignments, T, u) = 1 )
           => /\ reqs'[1].status = 200
              /\ \A u \in UsersWithEmail(users, e) : RecordCount(task_assignments', T, u) = 0]_vars

\* C29: in runs of task creations, user creations and assignments, in any
\* interleaving and with any store write failing, the embedded lists never
\* run ahead of the join collection: a user in a task's assigned_users has a
\* join record for that task, and a task in a user's assigned_tasks has that
\* user in its assigned_users.
C29_MirrorsNeverAhead ==
    /\ \A i \in 1..Len(tasks) : \A u \in Range(tasks[i].assigned_users) :
           RecordCount(task_assignments, tasks[i]._id, u) >= 1
    /\ \A j \in 1..Len(users) : \A t \in Range(users[j].assigned_tasks) :
           InAssignedUsers(tasks, t, users[j]._id) >= 1

\* An assignment whose last write failed: the record and the task's entry are
\* there, the user's entry is not, and the request was answered 500.
C29_Witness ==
    /\ faults > 0
    /\ \E i \in Slots : reqs[i].op = "assignUserToTask" /\ reqs[i].pc = "done" /\ reqs[i].status = 500
    /\ \E T \in TaskIds, U \in UserIds :
        /\ RecordCount(task_assignments, T, U) = 1
        /\ InAssignedUsers(tasks, T, U) = 1
        /\ InAssignedTasks(users, U, T) = 0

\* C30: a request answered 400, 401 or 404, by any handler, leaves the users,
\* tasks and task_assignments collections as they were before the request.
C30_ClientErrorsChangeNothing ==
    [][( /\ reqs[1].pc = "start"
         /\ reqs'[1].pc = "done"
         /\ reqs'[1].status \in {400, 401, 404} )
       => CollectionsUnchanged]_vars

\* An unassign answered 404 after its deleteOne found no record of the pair,
\* with records of other pairs in the collection.
C30_Witness ==
    /\ reqs[1].op = "removeUserFromTask"
    /\ reqs[1].pc = "done"
    /\ reqs[1].status = 404
    /\ reqs[1].message = "User is not assigned to this task"
    /\ task_assignments # <<>>

====
